---- MODULE Spec2Model ----
(***************************************************************************)
(* The perception layer of the browsing agent: the Element Indexer         *)
(* (scan, src/unnamed/part_001 and part_002) and the Annotation Renderer   *)
(* (draw, src/unnamed/part_000 and draw_bounding_boxes.js), run against a   *)
(* small live DOM that the page may change between calls.                  *)
(*                                                                         *)
(* Elements are numbered in document order (a parent before its children), *)
(* element 1 is the root of the page.  Lengths are CSS pixels; the layout  *)
(* of a page is fixed, only scrolling moves boxes in the viewport.         *)
(***************************************************************************)
EXTENDS Integers, Sequences, FiniteSets

VARIABLES
    doc,            \* which page is loaded
    scanVariant,    \* "rich" (part_002) or "simple" (part_001)
    drawVariant,    \* "bbox" (part_000) or "gwa" (draw_bounding_boxes.js)
    hidden,         \* element -> "" | "none" (display) | "hidden" (visibility)
    removed,        \* elements detached from the document (with their subtree)
    scrollY,        \* window.scrollY
    gwa,            \* element -> value of data-gwa-id, NoAttr when not set
    bbox,           \* element -> value of data-bbox-gwa-id, NoAttr when not set
    overlays,       \* the GWA-rect / GWA-label nodes appended to the body, in order
    element_simplified_htmls, \* what the latest scan returned
    wrote,          \* (history) the elements the latest scan wrote each marker
                    \* on, and those that carried a marker when it began
    indices,        \* the handle sequence the latest draw worked through
    arg,            \* the argument the latest draw was called with
    drawRet,        \* what the latest draw returned
    twice,          \* (history) whether the latest draw repeated the call just
                    \* before it, and the overlay nodes there were between them
    lastOp,         \* "load" | "scan" | "draw" | "change"
    rescan,         \* (history) since: what happened since the latest scan
                    \* returned ("scan": nothing, "draw": draws only, else
                    \* "change", or "load" before any scan); after: the same
                    \* when the latest scan began; htmls, gwa, bbox: the map
                    \* and the markers there were when it began
    changes         \* number of DOM changes so far

vars == <<doc, scanVariant, drawVariant, hidden, removed, scrollY, gwa, bbox,
          overlays, element_simplified_htmls, wrote, indices, arg, drawRet,
          twice, lastOp, rescan, changes>>

\* ------------------------------------------------------------------ bounds
MaxChanges == 1     \* DOM changes in one run
MaxIdx == 2         \* length of the handle sequence handed to draw

\* ------------------------------------------------------------- the pages
innerWidth == 100
innerHeight == 100
scrollX == 0
ScrollStops == {0, 8, 60}

null == "null"      \* an attribute that is not present (getAttribute -> null)
NoAttr == <<>>      \* a marker attribute that is not present

\* An element: text is the text it holds itself (before its children), attrs
\* its other attributes as <<name, value>> pairs
Nd(tag, type, id, for, role, parent, left, top, width, height, pe, hid, text, attrs) ==
    [tag |-> tag, type |-> type, id |-> id, for |-> for, role |-> role,
     parent |-> parent, left |-> left, top |-> top, width |-> width,
     height |-> height, pe |-> pe, hid |-> hid, text |-> text, attrs |-> attrs]

\* <label><input type=radio><input type=radio></label> <button>, and a link
\* below the fold
PageRadios == <<
    Nd("body",   "",      "",  null, "", 0,  0,   0, 100, 200, "auto", "", "", <<>>),
    Nd("label",  "",      "",  null, "", 1, 10,  10,  60,  20, "auto", "", "Size ", <<>>),
    Nd("input",  "radio", "",  null, "", 2, 12,  14,   0,   0, "auto", "", "", <<<<"name", "size">>, <<"value", "S">>, <<"checked", "">>>>),
    Nd("input",  "radio", "",  null, "", 2, 40,  14,   3,   3, "auto", "", "", <<<<"name", "size">>, <<"value", "L">>>>),
    Nd("button", "",      "",  null, "", 1, 10,  40,  30,  24, "auto", "", "OK", <<>>),
    Nd("a",      "",      "",  null, "", 1, 10, 130,  30,  12, "auto", "", "More", <<<<"href", "/more">>>>) >>

\* <button><input id=a><label for=a></button>, and a link cut by the bottom
\* edge of the viewport
PageWrapped == <<
    Nd("body",   "",      "",  null, "", 0,  0,   0, 100, 200, "auto", "", "", <<>>),
    Nd("button", "",      "",  null, "", 1, 10,  10,  60,  30, "auto", "", "", <<>>),
    Nd("input",  "text",  "a", null, "", 2, 12,  12,  30,  12, "auto", "", "", <<<<"name", "">>, <<"value", "">>>>),
    Nd("label",  "",      "",  "a",  "", 2, 44,  12,  20,  12, "auto", "", " First\nname ", <<>>),
    Nd("a",      "",      "",  null, "", 1, 10,  92,  30,  12, "auto", "", "Next", <<>>) >>

\* a checkbox with its label[for] and a textarea, all under a modal dialog
\* that is closed at first, a link inside the dialog
PageModal == <<
    Nd("body",     "",         "",  null, "", 0,  0,  0, 100, 200, "auto", "", "", <<>>),
    Nd("input",    "checkbox", "c", null, "", 1,  4,  4,  12,  12, "auto", "", "", <<>>),
    Nd("label",    "",         "",  "c",  "", 1, 20,  4,  30,  12, "auto", "", "Agree", <<>>),
    Nd("textarea", "",         "",  null, "", 1, 10, 30,  40,  20, "auto", "", "", <<<<"placeholder", "Notes">>>>),
    Nd("div",      "",         "",  null, "", 1,  0,  0, 100,  75, "auto", "none", "", <<>>),
    Nd("a",        "",         "",  null, "", 5, 40, 56,  20,  10, "auto", "", "Close", <<<<"href", "#">>>>) >>

\* <button>, then <div><label for=s><select id=s></div>, an option of a custom
\* list box (not in the document until the list box opens) and a button with
\* pointer-events:none
PageForm == <<
    Nd("body",   "", "",  null, "",        0,  0,  0, 100, 200, "auto", "", "", <<>>),
    Nd("button", "", "",  null, "",        1,  5,  5,  30,  24, "auto", "", "Go", <<>>),
    Nd("div",    "", "",  null, "",        1,  0, 40, 100,  30, "auto", "", "", <<>>),
    Nd("label",  "", "",  "s",  "",        3,  5, 45,  30,  12, "auto", "", "Sort", <<>>),
    Nd("select", "", "s", null, "",        3, 40, 45,  40,  12, "auto", "", "", <<>>),
    Nd("div",    "", "",  null, "option",  1,  5, 80,  40,  12, "auto", "", "Newest", <<<<"aria-selected", "">>>>),
    Nd("button", "", "",  null, "",        1, 60, 80,  20,  12, "none", "", "Off", <<>>) >>

\* a 0x0 checkbox without any label, <span>Name</span><input><span></span>,
\* a textarea with a placeholder of 60 characters and a 16x16 icon button
PageFields == <<
    Nd("body",     "",         "", null, "", 0,  0,  0, 100, 200, "auto", "", "", <<>>),
    Nd("input",    "checkbox", "", null, "", 1,  5,  5,   0,   0, "auto", "", "", <<>>),
    Nd("span",     "",         "", null, "", 1,  5, 20,  20,  12, "auto", "", "Name", <<>>),
    Nd("input",    "text",     "", null, "", 1, 30, 20,  40,  12, "auto", "", "", <<<<"placeholder", "Email">>>>),
    Nd("span",     "",         "", null, "", 1, 75, 20,  10,  12, "auto", "", "", <<>>),
    Nd("textarea", "",         "", null, "", 1,  5, 40,  60,  20, "auto", "", "",
       <<<<"placeholder", "Describe the problem in detail, including the steps you took">>>>),
    Nd("button",   "",         "", null, "", 1,  5, 70,  16,  16, "auto", "", "",
       <<<<"aria-label", "Save  all">>, <<"title", "">>>>) >>

Docs == <<PageRadios, PageWrapped, PageModal, PageForm, PageFields>>

\* the elements of each page that are not in the document when it loads
Detached == <<{}, {}, {}, {6}, {}>>

D == Docs[doc]
Nodes == 1..Len(D)

\* --------------------------------------------------------- DOM primitives
\* The values an element-valued expression can take besides an element:
\* 0 is null, OverlayLabel is a GWA-label span (a child of the body).
OverlayLabel == -1

parentElement(n) ==
    IF n = OverlayLabel THEN 1
    ELSE IF n \in removed THEN 0
    ELSE D[n].parent

RECURSIVE AncestorsOrSelf(_)
AncestorsOrSelf(n) ==
    IF n = 0 THEN {} ELSE {n} \cup AncestorsOrSelf(parentElement(n))

\* a.contains(b)
contains(a, b) == a \in AncestorsOrSelf(b)

InDocument(n) == 1 \in AncestorsOrSelf(n)

\* elements of the document in document order
DocumentOrder == SelectSeq([i \in 1..Len(D) |-> i], LAMBDA n : InDocument(n))

\* window.getComputedStyle(n), one operator for each property the code
\* reads: display is the element's own, visibility and pointer-events are
\* inherited
styleDisplay(n) == IF hidden[n] = "none" THEN "none" ELSE "block"

styleVisibility(n) ==
    IF \E a \in AncestorsOrSelf(n) : hidden[a] = "hidden"
    THEN "hidden" ELSE "visible"

stylePointerEvents(n) ==
    IF \E a \in AncestorsOrSelf(n) : D[a].pe = "none" THEN "none" ELSE "auto"

\* an element generates a box unless it or an ancestor has display:none
Rendered(n) ==
    InDocument(n) /\ \A a \in AncestorsOrSelf(n) : hidden[a] # "none"

\* n.getBoundingClientRect(), in viewport coordinates
getBoundingClientRect(n) ==
    IF Rendered(n)
    THEN [left |-> D[n].left - scrollX, top |-> D[n].top - scrollY,
          width |-> D[n].width, height |-> D[n].height,
          right |-> D[n].left - scrollX + D[n].width,
          bottom |-> D[n].top - scrollY + D[n].height]
    ELSE [left |-> 0, top |-> 0, width |-> 0, height |-> 0,
          right |-> 0, bottom |-> 0]

offsetWidth(n) == getBoundingClientRect(n).width
offsetHeight(n) == getBoundingClientRect(n).height

\* ------------------------------------------------------------ overlay nodes
\* An overlay node: cls is "GWA-rect" or "GWA-label", index the handle it
\* shows, the box in document coordinates (position:absolute).  fresh is
\* history: the node was injected by the latest draw.
LabelHeight == 16 + 2 * 1   \* lineHeight plus padding above and below
LabelWidth == 10            \* one bold digit plus padding left and right

OverlayBoxHas(o, x2, y2) ==
    /\ 2 * (o.left - scrollX) <= x2 /\ x2 < 2 * (o.left - scrollX + o.width)
    /\ 2 * (o.top - scrollY) <= y2 /\ y2 < 2 * (o.top - scrollY + o.height)

BoxHas(n, x2, y2) ==
    LET r == getBoundingClientRect(n) IN
    /\ 2 * r.left <= x2 /\ x2 < 2 * r.right
    /\ 2 * r.top <= y2 /\ y2 < 2 * r.bottom

Max(S) == CHOOSE x \in S : \A y \in S : y <= x

\* document.elementFromPoint(x2 / 2, y2 / 2): null outside the viewport, else
\* the topmost box under the point that takes pointer events.  The overlay
\* labels (z-index 2147483647, last children of the body) lie over the page,
\* the overlay rectangles have pointer-events:none, and of the page's own
\* elements the later in document order is painted over the earlier.
elementFromPoint(x2, y2) ==
    IF ~(0 <= x2 /\ x2 < 2 * innerWidth /\ 0 <= y2 /\ y2 < 2 * innerHeight)
    THEN 0
    ELSE IF \E i \in 1..Len(overlays) :
                overlays[i].cls = "GWA-label" /\ OverlayBoxHas(overlays[i], x2, y2)
    THEN OverlayLabel
    ELSE LET hit == {n \in Nodes :
                        /\ BoxHas(n, x2, y2)
                        /\ styleVisibility(n) = "visible"
                        /\ stylePointerEvents(n) = "auto"}
         IN IF hit = {} THEN 1 ELSE Max(hit)

\* ------------------------------------------------------------- the Indexer
\* document.querySelector(`label[for="${id}"]`), 0 when there is none
Min(S) == CHOOSE x \in S : \A y \in S : x <= y

associatedLabelOf(id) ==
    LET ls == {l \in Nodes : InDocument(l) /\ D[l].tag = "label" /\ D[l].for = id}
    IN IF ls = {} THEN 0 ELSE Min(ls)

isHiddenByAncestorsOwnOnly(element) ==
    styleDisplay(element) = "none" \/ hidden[element] = "hidden"

RECURSIVE isHiddenByAncestors(_)
isHiddenByAncestors(element) ==
    IF element = 0 THEN FALSE
    ELSE IF styleDisplay(element) = "none" \/ styleVisibility(element) = "hidden"
    THEN TRUE
    ELSE isHiddenByAncestors(parentElement(element))

\* the first loop of getParentWithLabel: the nearest ancestor of the input
\* that contains the label, 0 when the loop runs out
RECURSIVE CommonParent(_, _)
CommonParent(inputParent, associatedLabel) ==
    IF inputParent = 0 THEN 0
    ELSE IF contains(inputParent, associatedLabel) THEN inputParent
    ELSE CommonParent(parentElement(inputParent), associatedLabel)

\* the second loop of getParentWithLabel
RECURSIVE LabelWalk(_, _)
LabelWalk(parent, element) ==
    IF parent = 0 THEN element
    ELSE IF D[parent].tag = "label" THEN parent
    ELSE IF \E label \in Nodes :
                /\ label # parent /\ contains(parent, label)
                /\ D[label].tag = "label"
                /\ (D[label].for = D[element].id \/ contains(label, element))
    THEN parent
    ELSE LabelWalk(parentElement(parent), element)

getParentWithLabel(element) ==
    LET associatedLabel ==
            IF D[element].id # "" THEN associatedLabelOf(D[element].id) ELSE 0
        common ==
            IF associatedLabel # 0
            THEN CommonParent(parentElement(element), associatedLabel) ELSE 0
    IN IF common # 0 THEN common
       ELSE LabelWalk(parentElement(element), element)

\* the loop of isElementVisible over elementAtPoint and its ancestors
RECURSIVE HitsLabelOrContainer(_, _)
HitsLabelOrContainer(currentElement, element) ==
    IF currentElement = 0 THEN FALSE
    ELSE IF /\ currentElement # OverlayLabel
            /\ D[currentElement].tag = "label"
            /\ D[currentElement].for = D[element].id
    THEN TRUE
    ELSE IF contains(currentElement, element) THEN TRUE
    ELSE HitsLabelOrContainer(parentElement(currentElement), element)

isCheckable(element) ==
    /\ D[element].tag = "input"
    /\ D[element].type \in {"radio", "checkbox"}

isSmallFormElement(element) ==
    /\ isCheckable(element)
    /\ offsetWidth(element) <= 1
    /\ offsetHeight(element) <= 1

InViewport(rect) ==
    /\ rect.top >= 0
    /\ rect.left >= 0
    /\ rect.bottom <= innerHeight
    /\ rect.right <= innerWidth

isElementVisible(element) ==
    LET rect == getBoundingClientRect(element)
        parentWithLabel == getParentWithLabel(element)
        elementAtPoint ==
            elementFromPoint(2 * rect.left + rect.width, 2 * rect.top + rect.height)
    IN IF isHiddenByAncestors(element) THEN FALSE
       ELSE IF stylePointerEvents(element) = "none" THEN FALSE
       ELSE IF /\ ~isSmallFormElement(element)
               /\ \/ offsetWidth(element) <= 1
                  \/ offsetHeight(element) <= 1
                  \/ styleVisibility(element) = "hidden"
                  \/ styleDisplay(element) = "none"
       THEN FALSE
       ELSE IF /\ isSmallFormElement(element)
               /\ parentWithLabel # element
               /\ \/ getBoundingClientRect(parentWithLabel).width <= 1
                  \/ getBoundingClientRect(parentWithLabel).height <= 1
       THEN FALSE
       ELSE IF isCheckable(element) /\ HitsLabelOrContainer(elementAtPoint, element)
       THEN TRUE
       ELSE IF \/ elementAtPoint = 0
               \/ /\ elementAtPoint # element
                  /\ ~contains(element, elementAtPoint)
                  /\ ~contains(elementAtPoint, element)
       THEN FALSE
       ELSE IF rect.width * rect.height = 0 THEN FALSE
       ELSE InViewport(rect)

\* the candidates, in document order (querySelectorAll)
roles ==
    IF scanVariant = "rich"
    THEN {"button", "combobox", "option", "menuitem", "tab", "link"}
    ELSE {"button", "combobox", "listbox", "menuitem", "tab", "link"}

isCandidateUnmarked(n) ==
    /\ \/ D[n].tag \in {"a", "button", "input", "textarea", "select"}
       \/ D[n].role \in roles
    /\ gwa[n] = NoAttr

isCandidate(n) ==
    \/ D[n].tag \in {"a", "button", "input", "textarea", "select"}
    \/ D[n].role \in roles

elements == SelectSeq(DocumentOrder, isCandidate)

\* the value `gwa-element-${visibleIndex}` of a marker attribute
GwaValue(h) == <<"gwa-element-", h>>

\* parseInt(id?.replace("gwa-element-", "") || "0")
ParseIndex(id) == IF id = NoAttr THEN 0 ELSE id[2]

\* ---------------------------------------------------------- descriptions
\* the only element of a one-element set
The(S) == CHOOSE x \in S : TRUE

\* a white-space character (\s)
isSpace(c) == c \in {" ", "\n", "\t"}

RECURSIVE CollapseFrom(_, _)
CollapseFrom(s, i) ==
    IF i > Len(s) THEN ""
    ELSE (IF ~isSpace(SubSeq(s, i, i)) THEN SubSeq(s, i, i)
          ELSE IF i > 1 /\ isSpace(SubSeq(s, i - 1, i - 1)) THEN ""
          ELSE " ") \o CollapseFrom(s, i + 1)

\* s.replace(/\s+/g, " ")
CollapseWs(s) == The({CollapseFrom(v, 1) : v \in {s}})

RECURSIVE ReplaceFrom(_, _)
ReplaceFrom(s, i) ==
    IF i > Len(s) THEN ""
    ELSE (IF SubSeq(s, i, i) = "\n" THEN " " ELSE SubSeq(s, i, i))
         \o ReplaceFrom(s, i + 1)

\* s.replace(/\n/g, " ")
ReplaceNewlines(s) == The({ReplaceFrom(v, 1) : v \in {s}})

\* s.trim()
trim(s) ==
    The({LET ink == {i \in 1..Len(v) : ~isSpace(SubSeq(v, i, i))}
         IN IF ink = {} THEN "" ELSE SubSeq(v, Min(ink), Max(ink)) : v \in {s}})

\* n.textContent (rendered = FALSE): the text of n and of its descendants in
\* document order; with rendered = TRUE only the text that is rendered
RECURSIVE TextFrom(_, _, _)
TextFrom(n, c, rendered) ==
    IF c > Len(D) THEN ""
    ELSE (IF /\ contains(n, c)
             /\ rendered => (Rendered(c) /\ styleVisibility(c) = "visible")
          THEN D[c].text ELSE "") \o TextFrom(n, c + 1, rendered)

textContent(n) == TextFrom(n, n, FALSE)

\* n.innerText: the rendered text, its white space collapsed and trimmed as
\* the layout does
innerText(n) == trim(CollapseWs(TextFrom(n, n, TRUE)))

\* textContent?.replace(/\n/g, " ").trim() || ""
labelText(n) == trim(ReplaceNewlines(textContent(n)))

nextElementSibling(n) ==
    LET after == {c \in Nodes : c > n /\ c \notin removed /\ D[c].parent = D[n].parent}
    IN IF n \in removed \/ after = {} THEN 0 ELSE Min(after)

previousElementSibling(n) ==
    LET before == {c \in Nodes : c < n /\ c \notin removed /\ D[c].parent = D[n].parent}
    IN IF n \in removed \/ before = {} THEN 0 ELSE Max(before)

\* element.hasAttribute(attr) and element.getAttribute(attr), null when the
\* attribute is absent
ownAttrs(n) ==
    (IF D[n].id # "" THEN << <<"id", D[n].id>> >> ELSE <<>>)
    \o (IF D[n].type # "" THEN << <<"type", D[n].type>> >> ELSE <<>>)
    \o (IF D[n].role # "" THEN << <<"role", D[n].role>> >> ELSE <<>>)
    \o D[n].attrs

hasAttribute(n, attr) == \E i \in 1..Len(ownAttrs(n)) : ownAttrs(n)[i][1] = attr

getAttribute(n, attr) ==
    IF hasAttribute(n, attr)
    THEN ownAttrs(n)[Min({i \in 1..Len(ownAttrs(n)) : ownAttrs(n)[i][1] = attr})][2]
    ELSE null

\* the allow-list of each variant, in the order the attributes are emitted
attrs ==
    IF scanVariant = "rich"
    THEN <<"id", "name", "role", "type", "value", "placeholder", "title", "alt",
           "href", "checked", "selected", "disabled", "readonly", "aria-label",
           "aria-checked", "aria-selected", "aria-expanded", "aria-pressed",
           "aria-disabled", "aria-current", "aria-haspopup">>
    ELSE <<"aria-label", "alt", "placeholder", "value">>

booleanAttrs ==
    {"checked", "selected", "disabled", "readonly", "aria-checked",
     "aria-selected", "aria-expanded", "aria-pressed", "aria-disabled",
     "aria-current"}

keptWhenEmpty == {"value", "alt", "placeholder", "title", "href"}

MaxAttrLength == 50
KeptLength == 47

\* attrValue.substring(0, 47) + "..." for a value of more than 50 characters
Truncate(attrValue) ==
    IF Len(attrValue) > MaxAttrLength
    THEN SubSeq(attrValue, 1, KeptLength) \o "..."
    ELSE attrValue

\* what one round of the loop over the allow-list adds to the description:
\* nothing, or the attribute with its value
EmitAttr(element, attr) ==
    IF ~hasAttribute(element, attr) THEN <<>>
    ELSE IF scanVariant = "simple"
    THEN << <<attr, getAttribute(element, attr)>> >>
    ELSE LET attrValue ==
                 IF getAttribute(element, attr) = "" /\ attr \in booleanAttrs
                 THEN "true" ELSE getAttribute(element, attr)
         IN IF attrValue # "" \/ attr \in keptWhenEmpty
            THEN << <<attr, Truncate(attrValue)>> >>
            ELSE <<>>

RECURSIVE EmitAttrs(_, _)
EmitAttrs(element, i) ==
    IF i > Len(attrs) THEN <<>>
    ELSE EmitAttr(element, attrs[i]) \o EmitAttrs(element, i + 1)

\* the inner text of an input without text of its own, step by step; each
\* step is given the inner text the steps before it found
\* 1. the label[for] of the input
FromAssociatedLabel(element) ==
    IF D[element].id # "" /\ associatedLabelOf(D[element].id) # 0
    THEN labelText(associatedLabelOf(D[element].id))
    ELSE ""

\* 2. the parent, when it is a label
FromParentLabel(element, text) ==
    IF /\ text = ""
       /\ parentElement(element) # 0
       /\ D[parentElement(element)].tag = "label"
    THEN labelText(parentElement(element))
    ELSE text

\* 3. a sibling span: the next one, else the previous one
FromSiblingSpan(element, text) ==
    IF text # "" THEN text
    ELSE IF /\ nextElementSibling(element) # 0
            /\ D[nextElementSibling(element)].tag = "span"
    THEN labelText(nextElementSibling(element))
    ELSE IF /\ previousElementSibling(element) # 0
            /\ D[previousElementSibling(element)].tag = "span"
    THEN labelText(previousElementSibling(element))
    ELSE text

\* the last step: in the richer variant the next sibling whatever its tag
\* (its text trimmed; the pattern of that replace matches a backslash
\* followed by n, which no text of the pages holds), in the simpler variant
\* the value or the placeholder attribute
FromLastResort(element, text) ==
    IF text # "" THEN text
    ELSE IF scanVariant = "rich"
    THEN IF nextElementSibling(element) # 0
         THEN trim(textContent(nextElementSibling(element)))
         ELSE text
    ELSE IF getAttribute(element, "value") \notin {null, ""}
    THEN getAttribute(element, "value")
    ELSE IF getAttribute(element, "placeholder") \notin {null, ""}
    THEN getAttribute(element, "placeholder")
    ELSE ""

\* the text of the element itself
OwnText(element) ==
    IF scanVariant = "rich" THEN innerText(element) ELSE labelText(element)

InnerTextOf(element) ==
    The({IF D[element].tag = "input" /\ own = ""
         THEN The({FromLastResort(element, t3) :
                    t3 \in {FromSiblingSpan(element, t2) :
                    t2 \in {FromParentLabel(element, t1) :
                    t1 \in {FromAssociatedLabel(element)}}}})
         ELSE own : own \in {OwnText(element)}})

NormalizeAttrs(emitted) ==
    [i \in 1..Len(emitted) |-> <<emitted[i][1], CollapseWs(emitted[i][2])>>]

\* the description of an element, "<tag attr="v" ...>innerText</tag>" after
\* simplified_html.replace(/\s+/g, " ").trim(), kept in its parts: the tag
\* name, the attributes emitted with their values, the inner text.  The
\* string begins with "<" and ends with ">", so trim takes nothing away, and
\* no run of white space reaches across a part's ends, so the runs are
\* collapsed part by part.
simplified_html(element) ==
    [tag |-> D[element].tag,
     attrs |-> NormalizeAttrs(EmitAttrs(element, 1)),
     text |-> CollapseWs(InnerTextOf(element))]

Put(f, k, v) == [x \in DOMAIN f \cup {k} |-> IF x = k THEN v ELSE f[x]]

\* scan's reset: the marker is taken off every element of the document
ResetSkipped(attr) == attr

Reset(attr) == [n \in Nodes |-> IF InDocument(n) THEN NoAttr ELSE attr[n]]

SmallInput == 5

\* the element the primary marker of a visible candidate is written on
PrimaryTarget(element) ==
    IF scanVariant = "rich" /\ D[element].tag = "input"
    THEN LET rect == getBoundingClientRect(element)
         IN IF rect.width < SmallInput /\ rect.height < SmallInput
            THEN getParentWithLabel(element)
            ELSE element
    ELSE element

\* the element the bbox marker of a visible candidate is written on
BboxTarget(element) ==
    IF D[element].tag \in {"input", "textarea", "select"}
    THEN getParentWithLabel(element)
    ELSE element

NextIndexStuck(visibleIndex) == visibleIndex

\* visibleIndex++
NextIndex(visibleIndex) == visibleIndex + 1

\* one round of elements.forEach
ScanStep(st, element) ==
    IF isElementVisible(element)
    THEN LET primary == PrimaryTarget(element)
             bboxElement == BboxTarget(element)
             marker == GwaValue(st.visibleIndex)
         IN [gwa |-> [st.gwa EXCEPT ![primary] = marker],
             bbox |-> [st.bbox EXCEPT ![bboxElement] = marker],
             htmls |-> Put(st.htmls, st.visibleIndex,
                           [el |-> element, html |-> simplified_html(element)]),
             wroteGwa |-> st.wroteGwa \cup {primary},
             wroteBbox |-> st.wroteBbox \cup {bboxElement},
             visibleIndex |-> NextIndex(st.visibleIndex)]
    ELSE st

\* elements.forEach: the rounds one after the other, each on the state the
\* round before it left
RECURSIVE ScanLoop(_, _, _)
ScanLoop(els, i, st) ==
    IF i > Len(els) THEN st
    ELSE The({ScanLoop(els, i + 1, next) : next \in {ScanStep(st, els[i])}})

ScanResult ==
    The({ScanLoop(els, 1, st) :
            els \in {elements},
            st \in {[gwa |-> Reset(gwa), bbox |-> Reset(bbox), htmls |-> <<>>,
                     wroteGwa |-> {}, wroteBbox |-> {}, visibleIndex |-> 0]}})

\* The history variables hold what the latest operation saw and did; an
\* operation forgets what the other operations recorded.
ForgetDraw ==
    /\ indices' = <<>>
    /\ arg' = [given |-> FALSE, seq |-> <<>>]
    /\ drawRet' = 0
    /\ twice' = [same |-> FALSE, before |-> 0]

ForgetScan(since) ==
    /\ wrote' = [gwa |-> {}, bbox |-> {}, prior |-> {}]
    /\ rescan' = [since |-> since, after |-> "load", htmls |-> <<>>,
                  gwa |-> [n \in Nodes |-> NoAttr],
                  bbox |-> [n \in Nodes |-> NoAttr]]

Scan ==
    \E st \in {ScanResult} :
    /\ gwa' = st.gwa
    /\ bbox' = st.bbox
    /\ element_simplified_htmls' = st.htmls
    /\ wrote' = [gwa |-> st.wroteGwa, bbox |-> st.wroteBbox,
                 prior |-> {n \in Nodes : /\ InDocument(n)
                                          /\ (gwa[n] # NoAttr \/ bbox[n] # NoAttr)}]
    /\ ForgetDraw
    /\ lastOp' = "scan"
    /\ rescan' = [since |-> "scan", after |-> rescan.since,
                  htmls |-> element_simplified_htmls, gwa |-> gwa, bbox |-> bbox]
    /\ UNCHANGED <<doc, scanVariant, drawVariant, hidden, removed, scrollY,
                   overlays, changes>>

\* ------------------------------------------------------------ the Renderer
\* the marker attribute draw looks an element up by
lookupAttr == IF drawVariant = "bbox" THEN bbox ELSE gwa

\* the handles draw uses when it is given none: one for every element of the
\* document that carries data-gwa-id, read off the lookup attribute
DefaultIndices ==
    LET marked == SelectSeq(DocumentOrder, LAMBDA n : gwa[n] # NoAttr)
    IN [i \in 1..Len(marked) |-> ParseIndex(lookupAttr[marked[i]])]

\* document.querySelector(`[data-bbox-gwa-id="gwa-element-${index}"]`), 0
\* when there is none
querySelectorMarker(index) ==
    LET found == {n \in Nodes : InDocument(n) /\ lookupAttr[n] = GwaValue(index)}
    IN IF found = {} THEN 0 ELSE Min(found)

removeRectsOnly(ovs, className) ==
    SelectSeq(ovs, LAMBDA o : ~(o.cls = className /\ o.cls = "GWA-rect"))

removeElementsByClass(ovs, className) ==
    SelectSeq(ovs, LAMBDA o : o.cls # className)

MinReadable == 24
LabelLift == 16

\* the two nodes draw appends to the body for an element
OverlaysFor(index, element) ==
    LET rect == getBoundingClientRect(element)
        adjustedTop == rect.top + scrollY
        adjustedLeft == rect.left + scrollX
        lifted == /\ drawVariant = "bbox"
                  /\ (rect.height < MinReadable \/ rect.width < MinReadable)
    IN << [cls |-> "GWA-rect", index |-> index, top |-> adjustedTop,
           left |-> adjustedLeft, width |-> rect.width, height |-> rect.height,
           fresh |-> TRUE],
          [cls |-> "GWA-label", index |-> index,
           top |-> IF lifted THEN adjustedTop - LabelLift ELSE adjustedTop,
           left |-> adjustedLeft, width |-> LabelWidth, height |-> LabelHeight,
           fresh |-> TRUE] >>

\* one round of indices.forEach
DrawStep(ovs, index) ==
    LET element == querySelectorMarker(index)
    IN IF element = 0 THEN ovs ELSE ovs \o OverlaysFor(index, element)

RECURSIVE DrawLoop(_, _, _)
DrawLoop(idx, i, ovs) ==
    IF i > Len(idx) THEN ovs
    ELSE The({DrawLoop(idx, i + 1, next) : next \in {DrawStep(ovs, idx[i])}})

ReturnDrawn(idx) == Cardinality({i \in 1..Len(idx) : querySelectorMarker(idx[i]) # 0})

\* return indices.length
DrawReturn(idx) == Len(idx)

\* given = FALSE is a call without argument
Draw(given, seq) ==
    \E idx \in {IF ~given \/ Len(seq) = 0 THEN DefaultIndices ELSE seq} :
    LET kept == [i \in 1..Len(overlays) |-> [overlays[i] EXCEPT !.fresh = FALSE]]
        cleared == removeElementsByClass(
                       removeElementsByClass(kept, "GWA-rect"), "GWA-label")
    IN /\ indices' = idx
       /\ arg' = [given |-> given, seq |-> seq]
       /\ overlays' = DrawLoop(idx, 1, cleared)
       /\ drawRet' = DrawReturn(idx)
       /\ twice' = IF lastOp = "draw" /\ arg = [given |-> given, seq |-> seq]
                   THEN [same |-> TRUE, before |-> Len(overlays)]
                   ELSE [same |-> FALSE, before |-> 0]
       /\ lastOp' = "draw"
       /\ ForgetScan(IF rescan.since \in {"scan", "draw"} THEN "draw"
                     ELSE rescan.since)
       /\ UNCHANGED <<doc, scanVariant, drawVariant, hidden, removed, scrollY,
                      gwa, bbox, element_simplified_htmls, changes>>

\* ------------------------------------------------------ the page changes
Changed ==
    /\ changes < MaxChanges
    /\ changes' = changes + 1
    /\ lastOp' = "change"
    /\ ForgetScan("change")
    /\ ForgetDraw
    /\ UNCHANGED <<doc, scanVariant, drawVariant, gwa, bbox, overlays,
                   element_simplified_htmls>>

Hide(n, how) ==
    /\ hidden[n] = ""
    /\ hidden' = [hidden EXCEPT ![n] = how]
    /\ Changed
    /\ UNCHANGED <<removed, scrollY>>

Show(n) ==
    /\ hidden[n] # ""
    /\ hidden' = [hidden EXCEPT ![n] = ""]
    /\ Changed
    /\ UNCHANGED <<removed, scrollY>>

Remove(n) ==
    /\ InDocument(n)
    /\ removed' = removed \cup {n}
    /\ Changed
    /\ UNCHANGED <<hidden, scrollY>>

Add(n) ==
    /\ n \in removed
    /\ removed' = removed \ {n}
    /\ Changed
    /\ UNCHANGED <<hidden, scrollY>>

Scroll(y) ==
    /\ y # scrollY
    /\ scrollY' = y
    /\ Changed
    /\ UNCHANGED <<hidden, removed>>

\* ---------------------------------------------------------- specification
\* the sequences of at most n distinct elements of S
RECURSIVE SeqsUpTo(_, _)
SeqsUpTo(S, n) ==
    IF n = 0 THEN {<<>>}
    ELSE LET shorter == SeqsUpTo(S, n - 1)
         IN shorter \cup
            {Append(q, x) : <<q, x>> \in
                {<<q, x>> \in shorter \X S : \A i \in 1..Len(q) : q[i] # x}}

\* what draw is called with: the handles of a set, in some order
Handles == {0, 1, 2}
DrawArgs == SeqsUpTo(Handles, MaxIdx)

Init ==
    /\ doc \in 1..Len(Docs)
    /\ scanVariant \in {"rich", "simple"}
    /\ drawVariant \in {"bbox", "gwa"}
    /\ hidden = [n \in Nodes |-> D[n].hid]
    /\ removed = Detached[doc]
    /\ scrollY = 0
    /\ gwa = [n \in Nodes |-> NoAttr]
    /\ bbox = [n \in Nodes |-> NoAttr]
    /\ overlays = <<>>
    /\ element_simplified_htmls = <<>>
    /\ wrote = [gwa |-> {}, bbox |-> {}, prior |-> {}]
    /\ indices = <<>>
    /\ arg = [given |-> FALSE, seq |-> <<>>]
    /\ drawRet = 0
    /\ twice = [same |-> FALSE, before |-> 0]
    /\ lastOp = "load"
    /\ rescan = [since |-> "load", after |-> "load", htmls |-> <<>>,
                 gwa |-> [n \in Nodes |-> NoAttr],
                 bbox |-> [n \in Nodes |-> NoAttr]]
    /\ changes = 0

Next ==
    \/ Scan
    \/ Draw(FALSE, <<>>)
    \/ \E n \in Nodes \ {1}, how \in {"none", "hidden"} : Hide(n, how)
    \/ \E n \in Nodes \ {1} : Show(n)
    \/ \E n \in Nodes \ {1} : Remove(n)
    \/ \E n \in Nodes \ {1} : Add(n)
    \/ \E y \in ScrollStops : Scroll(y)

Spec == Init /\ [][Next]_vars

\* The Renderer called with handles: scans and draws of a page from which
\* an element (with its subtree) is removed at some point
NextDraw ==
    \/ Scan
    \/ \E seq \in DrawArgs : Draw(TRUE, seq)
    \/ Draw(FALSE, <<>>)
    \/ \E n \in Nodes \ {1} : removed = {} /\ Remove(n)

SpecDraw == Init /\ [][NextDraw]_vars

\* ------------------------------------------------------------- properties
\* what the properties speak of
Keys == DOMAIN element_simplified_htmls
Indexed == {element_simplified_htmls[h].el : h \in Keys}
Carriers(attr, h) == {n \in Nodes : InDocument(n) /\ attr[n] = GwaValue(h)}
MarkedIn(attr) == {n \in Nodes : InDocument(n) /\ attr[n] # NoAttr}
Visible == SelectSeq(elements, isElementVisible)
HasHiddenAncestor(n) == \E a \in AncestorsOrSelf(n) : hidden[a] # ""
Count(cls, h) ==
    Cardinality({i \in 1..Len(overlays) :
                    overlays[i].cls = cls /\ overlays[i].index = h})
Requested(h) == Cardinality({i \in 1..Len(indices) : indices[i] = h})
Defaulted == ~arg.given \/ arg.seq = <<>>

\* C1: once scan has returned, the handles of the returned map are the
\* handles some element of the document carries as bbox marker.
C1_MapHandlesAreBboxHandles ==
    lastOp = "scan" =>
        Keys = {ParseIndex(bbox[n]) : n \in MarkedIn(bbox)}

\* C2: once scan has returned, with N candidates passing isElementVisible,
\* the keys of the map are 0..N-1 and the k-th visible candidate in document
\* order has handle k-1.
C2_Density ==
    lastOp = "scan" =>
        /\ Keys = 0..(Len(Visible) - 1)
        /\ \A k \in 1..Len(Visible) :
               element_simplified_htmls[k - 1].el = Visible[k]

\* C2 witness: a scan returned two handles or more and passed over a
\* candidate that lies before a visible one.
C2_Witness ==
    /\ lastOp = "scan"
    /\ Len(Visible) >= 2
    /\ \E i, j \in 1..Len(elements) :
           /\ i < j
           /\ ~isElementVisible(elements[i])
           /\ isElementVisible(elements[j])

\* C3: once scan has returned, every handle of the map is the primary
\* marker of exactly one element of the document.
C3_OnePrimaryPerHandle ==
    lastOp = "scan" =>
        \A h \in Keys : Cardinality(Carriers(gwa, h)) = 1

\* C4: once scan has returned with N handles, whatever scans and page
\* changes came before, every primary and bbox marker in the document was
\* written by that scan and names a handle in 0..N-1.
C4_NoStaleMarker ==
    lastOp = "scan" =>
        /\ \A n \in MarkedIn(gwa) :
               n \in wrote.gwa /\ ParseIndex(gwa[n]) \in 0..(Cardinality(Keys) - 1)
        /\ \A n \in MarkedIn(bbox) :
               n \in wrote.bbox /\ ParseIndex(bbox[n]) \in 0..(Cardinality(Keys) - 1)

\* C4 witness: the page changed after an earlier scan, and the latest scan
\* left an element of the document unmarked that carried a marker before it.
C4_Witness ==
    /\ lastOp = "scan"
    /\ changes >= 1
    /\ Keys # {}
    /\ \E n \in wrote.prior :
           /\ InDocument(n)
           /\ n \notin wrote.gwa \cup wrote.bbox
           /\ gwa[n] = NoAttr /\ bbox[n] = NoAttr

\* C5: after scan, draw, scan on a page that does not change, the document
\* holds no overlay node (any overlay node there was injected by a draw
\* before the latest scan, for a handle of an earlier scan).
C5_NoStaleOverlay ==
    (lastOp = "scan" /\ changes = 0) => overlays = <<>>

\* C6: draw called without handles works through the handles of the
\* elements that carry the marker it looks elements up by, each once.
C6_DefaultHandles ==
    (lastOp = "draw" /\ Defaulted) =>
        /\ Len(indices) = Cardinality(MarkedIn(lookupAttr))
        /\ \A n \in MarkedIn(lookupAttr) : Requested(ParseIndex(lookupAttr[n])) = 1

C8_ReturnsInputCount ==
    (lastOp = "draw" /\ arg.given /\ arg.seq # <<>>) =>
        /\ indices = arg.seq
        /\ drawRet = Len(arg.seq)
        /\ \A i \in 1..Len(arg.seq) :
               IF querySelectorMarker(arg.seq[i]) = 0
               THEN Count("GWA-rect", arg.seq[i]) = 0
                    /\ Count("GWA-label", arg.seq[i]) = 0
               ELSE Count("GWA-rect", arg.seq[i]) >= 1
                    /\ Count("GWA-label", arg.seq[i]) >= 1

\* C8 witness: draw skipped a handle and drew the one after it.
C8_Witness ==
    /\ lastOp = "draw"
    /\ arg.given
    /\ \E i, j \in 1..Len(arg.seq) :
           /\ i < j
           /\ querySelectorMarker(arg.seq[i]) = 0
           /\ Count("GWA-rect", arg.seq[j]) = 1
    /\ drawRet > Cardinality({i \in 1..Len(overlays) : overlays[i].cls = "GWA-rect"})

\* C9: scan gives no handle and no primary marker to an element that has
\* display:none or visibility:hidden, or an ancestor that has.
C9_HiddenNeverIndexed ==
    lastOp = "scan" =>
        \A n \in Nodes :
            HasHiddenAncestor(n) =>
                /\ n \notin Indexed
                /\ n \notin wrote.gwa
                /\ InDocument(n) => gwa[n] = NoAttr

\* C9 witness: a scan handed out handles and passed over a candidate under
\* a hidden ancestor, be it a checkbox or radio input or another candidate.
C9_Witness ==
    /\ lastOp = "scan"
    /\ Keys # {}
    /\ \E n \in Nodes :
           /\ InDocument(n) /\ isCandidate(n)
           /\ hidden[n] = ""
           /\ HasHiddenAncestor(n)

\* C10 (its first half): every element scan gave a handle has its bounding
\* box entirely within the viewport.
C10_IndexedInViewport ==
    lastOp = "scan" =>
        \A n \in Indexed : InViewport(getBoundingClientRect(n))

\* the claimed source of an input's inner text: the first text that is not
\* empty of its label[for], its nearest wrapping label, its next and its
\* previous sibling span, its next and its previous sibling element, its
\* value and its placeholder
TextOrEmpty(n) == IF n = 0 THEN "" ELSE labelText(n)
SpanOrNull(n) == IF n # 0 /\ D[n].tag = "span" THEN n ELSE 0
WrappingLabel(n) ==
    LET ls == {a \in AncestorsOrSelf(n) \ {n} : D[a].tag = "label"}
    IN IF ls = {} THEN 0 ELSE Max(ls)
AttrOrEmpty(n, attr) == IF hasAttribute(n, attr) THEN getAttribute(n, attr) ELSE ""
FirstNonEmpty(texts) ==
    LET at == {i \in 1..Len(texts) : texts[i] # ""}
    IN IF at = {} THEN "" ELSE texts[Min(at)]
ClaimedInnerText(n) ==
    FirstNonEmpty(<<
        IF D[n].id # "" THEN TextOrEmpty(associatedLabelOf(D[n].id)) ELSE "",
        TextOrEmpty(WrappingLabel(n)),
        TextOrEmpty(SpanOrNull(nextElementSibling(n))),
        TextOrEmpty(SpanOrNull(previousElementSibling(n))),
        TextOrEmpty(nextElementSibling(n)),
        TextOrEmpty(previousElementSibling(n)),
        AttrOrEmpty(n, "value"),
        AttrOrEmpty(n, "placeholder") >>)

\* the element under the centre of an element's box
AtCentre(n) ==
    LET rect == getBoundingClientRect(n)
    IN elementFromPoint(2 * rect.left + rect.width, 2 * rect.top + rect.height)

\* C11: a checkbox or radio input of offset size <= 1px has a handle only if
\* its label-bearing ancestor (the input itself when it has none) is wider
\* and higher than 1px.
C11_SmallToggleNeedsSizedLabel ==
    lastOp = "scan" =>
        \A n \in Indexed :
            isSmallFormElement(n) =>
                /\ getBoundingClientRect(getParentWithLabel(n)).width > 1
                /\ getBoundingClientRect(getParentWithLabel(n)).height > 1

\* C12: a scan that follows a scan with nothing in between returns the map
\* the first returned and leaves every element with the primary and the
\* bbox marker the first left on it.
C12_RescanIdempotent ==
    (lastOp = "scan" /\ rescan.after = "scan") =>
        /\ element_simplified_htmls = rescan.htmls
        /\ \A n \in Nodes : gwa[n] = rescan.gwa[n] /\ bbox[n] = rescan.bbox[n]

\* C12 witness: the second of two scans in a row returned two handles or
\* more, over markers of the first that sit on an element without a handle.
C12_Witness ==
    /\ lastOp = "scan"
    /\ rescan.after = "scan"
    /\ Cardinality(Keys) >= 2
    /\ \E n \in Nodes : rescan.bbox[n] # NoAttr /\ n \notin Indexed

\* C13: in a description an attribute value of more than 50 characters
\* appears as its first 47 characters and "...", a shorter one unchanged,
\* and no value in a description is longer than 50 characters.
C13_AttrValuesTruncated ==
    lastOp = "scan" =>
        \A h \in Keys :
            LET el == element_simplified_htmls[h].el
                emitted == element_simplified_htmls[h].html.attrs
            IN \A i \in 1..Len(emitted) :
                   LET raw == getAttribute(el, emitted[i][1])
                   IN /\ Len(emitted[i][2]) <= MaxAttrLength
                      /\ Len(raw) > MaxAttrLength =>
                             emitted[i][2] = SubSeq(raw, 1, KeptLength) \o "..."
                      /\ (Len(raw) <= MaxAttrLength /\ raw # "") =>
                             emitted[i][2] = raw

\* C14: the inner text of an input without text of its own is the first
\* text that is not empty among its label[for], its wrapping label, its next
\* and previous sibling span, an adjacent sibling, its value, its placeholder.
C14_InnerTextFallbackOrder ==
    lastOp = "scan" =>
        \A h \in Keys :
            LET el == element_simplified_htmls[h].el
            IN (D[el].tag = "input" /\ OwnText(el) = "") =>
                   element_simplified_htmls[h].html.text
                       = CollapseWs(ClaimedInnerText(el))

\* C15: the element under the centre of an element with a handle is the
\* element, an ancestor or a descendant of it, or, for a checkbox or radio
\* input, its label[for]; it is never an unrelated element.
C15_CentreNotCovered ==
    lastOp = "scan" =>
        \A n \in Indexed :
            LET at == AtCentre(n)
            IN /\ at # 0
               /\ \/ at = n
                  \/ contains(n, at)
                  \/ contains(at, n)
                  \/ /\ isCheckable(n)
                     /\ at # OverlayLabel
                     /\ D[at].tag = "label"
                     /\ D[at].for = D[n].id

\* C16: a scan that follows a scan with nothing but draws in between
\* returns the map the first returned.
C16_DrawKeepsScanResult ==
    (lastOp = "scan" /\ rescan.after = "draw") =>
        element_simplified_htmls = rescan.htmls

====
